---- MODULE Spec2Model ----
(***************************************************************************)
(* Model of src/src/mdfs.rs: the mana depth first search (Mdfs) iterator,  *)
(* its recursive search mdfs_step and the pair pruner                      *)
(* words_pair_combinations.                                                *)
(*                                                                         *)
(* A RoaringBitmap is a finite set of document ids.  A word slot is a      *)
(* function from its word variants to the variant's document ids (the typo *)
(* count and the per-slot aggregate bitmap are never read by this code).   *)
(* The store word_pair_proximity_docids is a function whose domain is the  *)
(* set of keys <<w1, w2, proximity>> it records (get returns None for any  *)
(* other key).  A store lookup may fail: the next() action takes as input  *)
(* the number of the lookup, counted within the call, that fails (0: none).*)
(***************************************************************************)
EXTENDS Integers, Sequences, FiniteSets, TLC

\* ---- bounds of the model ------------------------------------------------
MaxSlots == 3
MaxDoc == 2
MaxFailAt == 2

\* ---- program constant: the sentinel / largest proximity (the literal 8) --
MaxProximity == 8

Docs == 1..MaxDoc

VARIABLES
    words,            \* Mdfs.words: sequence of word slots
    store,            \* index.word_pair_proximity_docids seen through rtxn
    union_cache,      \* Mdfs.union_cache: <<suffix length, proximity>> -> docids
    candidates,       \* Mdfs.candidates
    mana,             \* Mdfs.mana
    max_mana,         \* Mdfs.max_mana
    init_candidates,  \* history: the candidates passed to Mdfs::new
    batches,          \* history: the batches returned so far, with their mana
    first_searched,   \* history: mana -> candidates when that mana was first searched
    erred,            \* history: some store lookup has failed
    calls,            \* history: next() calls made: 0, 1, or 2 for two or more
    ref,              \* the iterator without a cache, run beside this one
    last              \* history: what the last next() call did and returned

vars == <<words, store, union_cache, candidates, mana, max_mana,
          init_candidates, batches, first_searched, erred, calls, ref, last>>

\* ---- helpers --------------------------------------------------------------
Min(a, b) == IF a <= b THEN a ELSE b
Max(a, b) == IF a >= b THEN a ELSE b

\* u32 saturating_sub
saturating_sub(a, b) == IF a >= b THEN a - b ELSE 0

\* The elements of a set in some order.  A HashMap is iterated in an unspecified
\* order; the union built from the pairs does not depend on it, only which
\* lookups precede a failing one does.
RECURSIVE SetToSeq(_)
SetToSeq(S) ==
    IF S = {} THEN <<>>
    ELSE LET x == CHOOSE y \in S : TRUE IN <<x>> \o SetToSeq(S \ {x})

\* ---- the inputs of Mdfs::new ------------------------------------------------
\* Word slots: one variant found in every document (OneVariant), or two variants
\* with disjoint document sets (TwoVariants).  The first j slots of a query have
\* two variants, the others one.
OneVariant == [w \in {"a"} |-> Docs]
TwoVariants == [w \in {"a", "b"} |-> IF w = "a" THEN {1} ELSE Docs \ {1}]

WordsChoices ==
    { [i \in 1..n |-> IF i <= j THEN TwoVariants ELSE OneVariant] :
        n \in 0..MaxSlots, j \in 0..MaxSlots }

\* The candidates passed to Mdfs::new.
CandidateChoices == {{}, {1}, Docs \ {1}, Docs}

\* A posting <<w1, w2, p, d>>: the store records document d under key <<w1, w2, p>>.
\* The store of a run records any subset of these postings.
Postings ==
    { <<"a", "a", 2, 1>>, <<"b", "b", 1, 1>>, <<"b", "a", 1, 2>>, <<"a", "b", 1, 2>> }

StoreOf(P) ==
    [key \in {<<x[1], x[2], x[3]>> : x \in P} |->
        {x[4] : x \in {y \in P : <<y[1], y[2], y[3]>> = key}}]

StoreChoices == {StoreOf(P) : P \in SUBSET Postings}

Idle ==
    [ret |-> "new", batch |-> {}, found_mana |-> 0, look |-> 0,
     failed |-> FALSE, fail_mana |-> 0, late |-> 0, lookups |-> {},
     sentinel |-> {}, steps |-> {}, start_mana |-> 0, start_candidates |-> {},
     returns |-> {}, searches |-> 0, fail_key |-> << >>, prev_ret |-> "new"]

\* ---- words_pair_combinations -------------------------------------------------
\* mutant: the is_disjoint filter left out
PairKept_all(w1, w2, x, y) == TRUE

PairKept(w1, w2, x, y) == (w1[x] \cap w2[y]) # {}

words_pair_combinations(w1, w2) ==
    SetToSeq({xy \in (DOMAIN w1) \X (DOMAIN w2) : PairKept(w1, w2, xy[1], xy[2])})

\* ---- the store lookup: word_pair_proximity_docids.get(rtxn, &key)? ----------
\* The lookup numbered st.failAt of the call fails; a lookup made although an
\* earlier one of the call failed is counted in st.late.
LookupFails(st) == st.look + 1 = st.failAt

Issue(st, k, key) ==
    [st EXCEPT !.look = @ + 1,
               !.lookups = @ \cup {<<k, key[1], key[2], key[3]>>},
               !.late = IF st.failed THEN @ + 1 ELSE @]

Fail(st, k, proximity) ==
    [st EXCEPT !.failed = TRUE, !.fail_mana = st.top_mana,
               !.fail_key = <<Len(words) - k + 1, proximity>>]

Found(key, docids) ==
    IF key \in DOMAIN store THEN docids \cup store[key] ELSE docids

\* for (w1, w2) in pairs: union the store's sets; `?` leaves at the first failure
RECURSIVE UnionLoop(_, _, _, _, _, _)
UnionStep(pairs, i, k, proximity, docids, st, key) ==
    IF LookupFails(st)
    THEN [err |-> TRUE, docids |-> {}, st |-> Fail(Issue(st, k, key), k, proximity)]
    ELSE UnionLoop(pairs, i + 1, k, proximity, Found(key, docids), Issue(st, k, key))

UnionLoop(pairs, i, k, proximity, docids, st) ==
    IF i > Len(pairs) THEN [err |-> FALSE, docids |-> docids, st |-> st]
    ELSE UnionStep(pairs, i, k, proximity, docids, st,
                   <<pairs[i][1], pairs[i][2], proximity>>)

\* mutant: the proximity 8 branch leaves docids as created, empty
Sentinel_new(cands) == {}

\* the Vacant arm's value when proximity = 8
Sentinel(cands) == cands

CacheInsert(cache, key, docids) ==
    [x \in (DOMAIN cache) \cup {key} |-> IF x = key THEN docids ELSE cache[x]]

\* mutant: the entry inserted whether or not a lookup failed
Insert_early(u, key) ==
    [err |-> u.err, hit |-> FALSE, docids |-> u.docids,
     st |-> [u.st EXCEPT !.cache = CacheInsert(@, key, u.docids)]]

\* entry.insert(docids).clone(), unless the union was left by `?`
Insert(u, key) ==
    IF u.err THEN u
    ELSE [err |-> FALSE, hit |-> FALSE, docids |-> u.docids,
          st |-> [u.st EXCEPT !.cache = CacheInsert(@, key, u.docids)]]

\* union_cache.entry((words.len(), proximity)): Occupied / Vacant
CacheEntry(k, key, cands, st) ==
    IF key \in DOMAIN st.cache
    THEN [err |-> FALSE, hit |-> TRUE, docids |-> st.cache[key], st |-> st]
    ELSE IF key[2] = MaxProximity
         THEN Insert([err |-> FALSE, docids |-> Sentinel(cands), st |-> st], key)
         ELSE Insert(UnionLoop(words_pair_combinations(words[k], words[k + 1]),
                               1, k, key[2], {}, st), key)

\* mutant: the children counted for 1 mana each, not 8
min_proximity_plain(m, nb_children) == Max(1, saturating_sub(m, nb_children))

min_proximity(m, nb_children) ==
    Max(1, saturating_sub(m, nb_children * MaxProximity))

\* mutant: the range of proximities taken without its upper end
max_proximity_excl(m, nb_children) == Min(MaxProximity, m - nb_children) - 1

\* mutant: no mana kept back for the children
max_proximity_all(m, nb_children) == Min(MaxProximity, m)

max_proximity(m, nb_children) == Min(MaxProximity, m - nb_children)

\* history: every try of proximity 8, with the set the cache gave for it
NoteSentinel(e, k, proximity, cands) ==
    IF proximity = MaxProximity
    THEN [e.st EXCEPT !.sentinel = @ \cup {[k |-> k, hit |-> e.hit,
                                            contributed |-> e.docids,
                                            candidates |-> cands]}]
    ELSE e.st

NoteStep(st, m, nb_children) == [st EXCEPT !.steps = @ \cup {<<m, nb_children>>}]

\* docids.intersect_with(parent_docids)
Intersect(docids, parent) == docids \cap parent

\* mdfs_step on the suffix words[k..] (k is the index of its first slot), with
\* the body of its for loop over the proximities
RECURSIVE mdfs_step(_, _, _, _, _), ProximityLoop(_, _, _, _, _, _, _)
\* mutant: the parent set returned in place of the child's answer
AfterChild_parent(r, proximity, maxp, m, k, cands, parent) ==
    IF r.res = "none"
    THEN ProximityLoop(proximity + 1, maxp, m, k, cands, parent, r.st)
    ELSE [r EXCEPT !.docids = parent]

\* mutant: the child's result returned even when it found nothing
AfterChild_return(r, proximity, maxp, m, k, cands, parent) == r

\* if let Some(di) = mdfs_step(...)? { return Ok(Some(di)) }
AfterChild(r, proximity, maxp, m, k, cands, parent) ==
    IF r.res = "none"
    THEN ProximityLoop(proximity + 1, maxp, m, k, cands, parent, r.st)
    ELSE r

\* if !docids.is_empty() { ... }
AfterIntersect(docids, st, proximity, maxp, m, k, cands, parent) ==
    IF docids = {}
    THEN ProximityLoop(proximity + 1, maxp, m, k, cands, parent, st)
    ELSE IF Len(words) - k < 2
         THEN [res |-> "some", docids |-> docids, st |-> st]
         ELSE AfterChild(mdfs_step(m - proximity, k + 1, cands, docids, st),
                         proximity, maxp, m, k, cands, parent)

AfterEntry(e, proximity, maxp, m, k, cands, parent) ==
    IF e.err THEN [res |-> "err", docids |-> {}, st |-> e.st]
    ELSE AfterIntersect(Intersect(e.docids, parent),
                        NoteSentinel(e, k, proximity, cands),
                        proximity, maxp, m, k, cands, parent)

\* mutant: the cache keyed by the proximity alone
CacheKey_proximity(k, proximity) == <<2, proximity>>

\* the cache key (words.len(), proximity) of the suffix words[k..]
CacheKey(k, proximity) == <<Len(words) - k + 1, proximity>>

ProximityLoop(proximity, maxp, m, k, cands, parent, st) ==
    IF proximity > maxp THEN [res |-> "none", docids |-> {}, st |-> st]
    ELSE AfterEntry(CacheEntry(k, CacheKey(k, proximity), cands, st),
                    proximity, maxp, m, k, cands, parent)

Children(k) == (Len(words) - k) - 1

\* history: what an invocation that did not fail was given and returned
NoteReturn(r, m, k, cands, parent) ==
    IF r.res = "err" THEN r
    ELSE [r EXCEPT !.st.returns = @ \cup {[k |-> k, m |-> m, candidates |-> cands,
                                            parent |-> parent, res |-> r.res,
                                            docids |-> r.docids]}]

mdfs_step(m, k, cands, parent, st) ==
    NoteReturn(ProximityLoop(min_proximity(m, Children(k)),
                             max_proximity(m, Children(k)),
                             m, k, cands, parent, NoteStep(st, m, Children(k))),
               m, k, cands, parent)

\* ---- Mdfs::next ---------------------------------------------------------------
\* self.candidates.difference_with(&a) and answer.union_with(&a)
RemoveAnswered(cands, a) == cands \ a
Accumulate(answer, a) == answer \cup a

NoteSearch(st, m, cands) ==
    [st EXCEPT !.top_mana = m,
               !.searches = @ + 1,
               !.first = IF m \in DOMAIN @ THEN @
                         ELSE [x \in (DOMAIN @) \cup {m} |->
                                  IF x = m THEN cands ELSE @[x]]]

\* the arms of `match result`, each giving what the call returns or the next
\* iteration of the while loop
RECURSIVE NextLoop(_, _, _, _)
OnSome(m, cands, answer, r) ==
    NextLoop(m, RemoveAnswered(cands, r.docids), Accumulate(answer, r.docids), r.st)

\* mutant: the answer returned before the mana is incremented
OnNone_stay(m, cands, answer, r) ==
    IF answer # {}
    THEN [ret |-> "batch", batch |-> answer, found |-> m, mana |-> m,
          candidates |-> cands, st |-> r.st]
    ELSE NextLoop(m + 1, cands, answer, r.st)

\* mutant: the answer returned without the emptiness test
OnNone_always(m, cands, answer, r) ==
    [ret |-> "batch", batch |-> answer, found |-> m, mana |-> m + 1,
     candidates |-> cands, st |-> r.st]

OnNone(m, cands, answer, r) ==
    IF answer # {}
    THEN [ret |-> "batch", batch |-> answer, found |-> m, mana |-> m + 1,
          candidates |-> cands, st |-> r.st]
    ELSE NextLoop(m + 1, cands, answer, r.st)

\* mutant: a failed search taken for one that found nothing
OnErr_swallow(m, cands, answer, r) == OnNone(m, cands, answer, r)

\* mutant: the mana stepped back when a search fails
OnErr_back(m, cands, answer, r) ==
    [ret |-> "err", batch |-> {}, found |-> 0, mana |-> m - 1, candidates |-> cands,
     st |-> r.st]

OnErr(m, cands, answer, r) ==
    [ret |-> "err", batch |-> {}, found |-> 0, mana |-> m, candidates |-> cands,
     st |-> r.st]

Match(m, cands, answer, r) ==
    CASE r.res = "some" -> OnSome(m, cands, answer, r)
      [] r.res = "none" -> OnNone(m, cands, answer, r)
      [] OTHER -> OnErr(m, cands, answer, r)

\* mutant: the mana set back to its first value on exhaustion
Exhausted_reset(m, cands, st) ==
    [ret |-> "none", batch |-> {}, found |-> 0, mana |-> Len(words) - 1,
     candidates |-> cands, st |-> st]

\* the None after the while loop
Exhausted(m, cands, st) ==
    [ret |-> "none", batch |-> {}, found |-> 0, mana |-> m, candidates |-> cands,
     st |-> st]

\* mutant: the loop runs one mana past the ceiling
WithinCeiling_past(m) == m <= max_mana + 1

\* mutant: the loop stops before the ceiling
WithinCeiling_before(m) == m < max_mana

\* the loop condition self.mana <= self.max_mana
WithinCeiling(m) == m <= max_mana

\* while self.mana <= self.max_mana { ... } None
NextLoop(m, cands, answer, st) ==
    IF ~WithinCeiling(m) THEN Exhausted(m, cands, st)
    ELSE Match(m, cands, answer, mdfs_step(m, 1, cands, cands, NoteSearch(st, m, cands)))

\* mutant: the candidates cloned instead of taken
Shortcut_clone(cands, st) ==
    IF cands = {}
    THEN [ret |-> "none", batch |-> {}, found |-> 0, mana |-> mana,
          candidates |-> cands, st |-> st]
    ELSE [ret |-> "batch", batch |-> cands, found |-> mana, mana |-> mana,
          candidates |-> cands, st |-> st]

\* mutant: the candidates taken without the emptiness test
Shortcut_always(cands, st) ==
    [ret |-> "batch", batch |-> cands, found |-> mana, mana |-> mana,
     candidates |-> {}, st |-> st]

\* if self.words.len() <= 1 { ... }
Shortcut(cands, st) ==
    IF cands = {}
    THEN [ret |-> "none", batch |-> {}, found |-> 0, mana |-> mana,
          candidates |-> cands, st |-> st]
    ELSE [ret |-> "batch", batch |-> cands, found |-> mana, mana |-> mana,
          candidates |-> {}, st |-> st]

Start(failAt) ==
    [cache |-> union_cache, look |-> 0, failAt |-> failAt, failed |-> FALSE,
     fail_mana |-> 0, top_mana |-> mana, late |-> 0, lookups |-> {},
     sentinel |-> {}, steps |-> {}, first |-> first_searched,
     returns |-> {}, searches |-> 0, fail_key |-> << >>]

Call(failAt) ==
    IF Len(words) <= 1 THEN Shortcut(candidates, Start(failAt))
    ELSE NextLoop(mana, candidates, {}, Start(failAt))

\* ---- the iterator without a cache ----------------------------------------------
\* The same search with every per-pair set recomputed at each use from the
\* current candidates and the store; {} stands for Ok(None).
FreshSet(k, proximity, cands) ==
    IF proximity = MaxProximity THEN cands
    ELSE UNION { store[<<x, y, proximity>>] :
                   <<x, y>> \in { xy \in (DOMAIN words[k]) \X (DOMAIN words[k + 1]) :
                                    /\ words[k][xy[1]] \cap words[k + 1][xy[2]] # {}
                                    /\ <<xy[1], xy[2], proximity>> \in DOMAIN store } }

RECURSIVE RefStep(_, _, _, _), RefLoopP(_, _, _, _, _, _)
RefChild(r, proximity, maxp, m, k, cands, parent) ==
    IF r = {} THEN RefLoopP(proximity + 1, maxp, m, k, cands, parent) ELSE r

RefTry(docids, proximity, maxp, m, k, cands, parent) ==
    IF docids = {} THEN RefLoopP(proximity + 1, maxp, m, k, cands, parent)
    ELSE IF Len(words) - k < 2 THEN docids
         ELSE RefChild(RefStep(m - proximity, k + 1, cands, docids),
                       proximity, maxp, m, k, cands, parent)

RefLoopP(proximity, maxp, m, k, cands, parent) ==
    IF proximity > maxp THEN {}
    ELSE RefTry(FreshSet(k, proximity, cands) \cap parent,
                proximity, maxp, m, k, cands, parent)

RefStep(m, k, cands, parent) ==
    RefLoopP(min_proximity(m, Children(k)), max_proximity(m, Children(k)),
             m, k, cands, parent)

RECURSIVE RefLoop(_, _, _)
RefMatch(a, m, cands, answer) ==
    IF a # {} THEN RefLoop(m, cands \ a, answer \cup a)
    ELSE IF answer # {}
         THEN [ret |-> "batch", batch |-> answer, mana |-> m + 1, candidates |-> cands]
         ELSE RefLoop(m + 1, cands, answer)

RefLoop(m, cands, answer) ==
    IF ~(m <= max_mana)
    THEN [ret |-> "none", batch |-> {}, mana |-> m, candidates |-> cands]
    ELSE RefMatch(RefStep(m, 1, cands, cands), m, cands, answer)

RefCall(r) ==
    IF Len(words) <= 1
    THEN IF r.candidates = {}
         THEN [ret |-> "none", batch |-> {}, mana |-> r.mana, candidates |-> {}]
         ELSE [ret |-> "batch", batch |-> r.candidates, mana |-> r.mana,
               candidates |-> {}]
    ELSE RefLoop(r.mana, r.candidates, {})

\* Once a lookup has failed the two iterators are no longer compared.
RefVoid == [ret |-> "void", batch |-> {}, mana |-> 0, candidates |-> {}]

Return(c) ==
    /\ union_cache' = c.st.cache
    /\ candidates' = c.candidates
    /\ mana' = c.mana
    /\ batches' = IF c.ret = "batch"
                  THEN Append(batches, [docids |-> c.batch, mana |-> c.found])
                  ELSE batches
    /\ first_searched' = c.st.first
    /\ erred' = (erred \/ c.st.failed)
    /\ calls' = Min(calls + 1, 2)
    /\ ref' = IF erred \/ c.st.failed THEN RefVoid ELSE RefCall(ref)
    /\ last' = [ret |-> c.ret, batch |-> c.batch, found_mana |-> c.found,
                look |-> c.st.look, failed |-> c.st.failed,
                fail_mana |-> c.st.fail_mana, late |-> c.st.late,
                lookups |-> c.st.lookups, sentinel |-> c.st.sentinel,
                steps |-> c.st.steps, start_mana |-> mana,
                start_candidates |-> candidates, returns |-> c.st.returns,
                searches |-> c.st.searches, fail_key |-> c.st.fail_key,
                prev_ret |-> last.ret]
    /\ UNCHANGED <<words, store, max_mana, init_candidates>>

next(failAt) == Return(Call(failAt))

\* ---- Mdfs::new ------------------------------------------------------------------
new_mana(n) == IF n >= 1 THEN n - 1 ELSE 0
new_max_mana(n) == new_mana(n) * MaxProximity

Init ==
    /\ words \in WordsChoices
    /\ store \in StoreChoices
    /\ candidates \in CandidateChoices
    /\ init_candidates = candidates
    /\ union_cache = << >>
    /\ mana = new_mana(Len(words))
    /\ max_mana = new_max_mana(Len(words))
    /\ batches = << >>
    /\ first_searched = << >>
    /\ erred = FALSE
    /\ calls = 0
    /\ ref = [ret |-> "new", batch |-> {}, mana |-> new_mana(Len(words)),
              candidates |-> candidates]
    /\ last = Idle

Next == \E failAt \in 0..MaxFailAt : next(failAt)

Spec == Init /\ [][Next]_vars

\* ================================ claims ======================================
NbSlots == Len(words)
Returned == UNION {batches[i].docids : i \in DOMAIN batches}

\* C1: the batches one iterator returned are pairwise disjoint, and after every
\* call no returned batch shares a document id with the remaining candidates.
C1_NoDuplicateReporting ==
    /\ \A i, j \in DOMAIN batches :
          i # j => batches[i].docids \cap batches[j].docids = {}
    /\ \A i \in DOMAIN batches : batches[i].docids \cap candidates = {}

\* two batches have been returned by an iterator over three slots
C1_Witness == Len(batches) >= 2 /\ NbSlots >= 3 /\ last.ret = "batch"

\* C2: after any sequence of calls, whatever each returned, the batches returned
\* so far together with the remaining candidates are the initial candidates.
C2_Completeness == Returned \cup candidates = init_candidates

\* C5: every returned batch is a non-empty set; an empty result is reported as
\* exhaustion.
C5_BatchNonEmpty ==
    /\ \A i \in DOMAIN batches : batches[i].docids # {}
    /\ last.ret = "batch" => last.batch # {}
    /\ (calls >= 1 /\ init_candidates = {}) => last.ret # "batch"

\* a search over at least two slots found nothing at some mana and went on to
\* return a batch found at a larger one
C5_Witness ==
    /\ NbSlots >= 2
    /\ last.ret = "batch"
    /\ last.found_mana > last.start_mana

\* The document set of the pair of slots (i, i+1) at proximity p, as the claim
\* states it: any document at the sentinel, else the union of the store's sets
\* over the variant pairs whose per-variant document sets share a document.
PairDocs(i, p) ==
    IF p = MaxProximity THEN Docs
    ELSE UNION { store[<<x, y, p>>] :
                   <<x, y>> \in { xy \in (DOMAIN words[i]) \X (DOMAIN words[i + 1]) :
                                    /\ words[i][xy[1]] \cap words[i + 1][xy[2]] # {}
                                    /\ <<xy[1], xy[2], p>> \in DOMAIN store } }

\* some assignment of proximities in 1..8 to the pairs i, i+1, ... of sum m has
\* d in every pair's document set
RECURSIVE Assignable(_, _, _)
Assignable(d, i, m) ==
    IF i > NbSlots - 1 THEN m = 0
    ELSE \E p \in 1..MaxProximity :
            p <= m /\ d \in PairDocs(i, p) /\ Assignable(d, i + 1, m - p)

\* C3: with at least 2 slots and no store error, the batch returned at mana m is
\* exactly the set of the candidates remaining when m was first searched that
\* have an assignment of sum m, and no remaining candidate has an assignment of
\* sum m or less.
C3_BatchExactness ==
    (NbSlots >= 2 /\ ~erred /\ last.ret = "batch") =>
        /\ last.found_mana \in DOMAIN first_searched
        /\ last.batch = { d \in first_searched[last.found_mana] :
                            Assignable(d, 1, last.found_mana) }
        /\ \A d \in candidates : \A m \in 0..last.found_mana : ~Assignable(d, 1, m)

\* a batch of two documents found by two searches at one mana below the
\* ceiling, over three slots
C3_Witness ==
    /\ NbSlots >= 3 /\ ~erred /\ last.ret = "batch"
    /\ Cardinality(last.batch) >= 2
    /\ last.found_mana < max_mana
    /\ \E d \in last.batch : \E p \in 1..(MaxProximity - 1) :
          d \in PairDocs(1, p) /\ \E e \in last.batch : e \notin PairDocs(1, p)

BatchManaSorted ==
    \A i, j \in DOMAIN batches : i < j => batches[i].mana <= batches[j].mana

\* C4: batches are returned in non-decreasing order of the mana at which they
\* were found, and the mana field never decreases from one call to the next.
C4_MonotonicLooseness == [](BatchManaSorted) /\ [][mana' >= mana]_vars

\* two batches found at different mana values
C4_Witness ==
    /\ Len(batches) >= 2
    /\ batches[1].mana < batches[2].mana
    /\ mana > batches[2].mana

\* C6: with 0 or 1 slots the first call returns the whole initial candidate set
\* if it is non-empty, every other call reports exhaustion, the remaining
\* candidates are empty after any call, and no store lookup is issued.
C6_SingleSlotShortcut ==
    (NbSlots <= 1 /\ calls >= 1) =>
        /\ last.look = 0 /\ last.lookups = {} /\ union_cache = << >>
        /\ candidates = {}
        /\ (calls = 1 /\ init_candidates # {}) =>
              /\ last.ret = "batch" /\ last.batch = init_candidates
        /\ (calls = 1 /\ init_candidates = {}) => last.ret = "none"
        /\ calls = 2 => last.ret = "none"
        /\ batches = IF init_candidates = {} THEN << >>
                     ELSE <<[docids |-> init_candidates, mana |-> 0]>>

\* one slot: the batch has been returned and a later call reported exhaustion
C6_Witness ==
    NbSlots = 1 /\ calls = 2 /\ last.ret = "none" /\ Len(batches) = 1

\* C7: a call in which a store lookup fails returns the failure, issues no
\* lookup after it, and leaves mana at the value the failing search was invoked
\* with; a call returns a failure only if a lookup failed.
C7_StoreFailurePropagation ==
    /\ last.failed => /\ last.ret = "err"
                      /\ last.late = 0
                      /\ mana = last.fail_mana
    /\ last.ret = "err" => last.failed

\* a lookup failed after the call had already moved to a larger mana
C7_Witness ==
    last.failed /\ last.ret = "err" /\ last.look >= 2 /\ mana > last.start_mana

\* C8: every lookup <<k, w1, w2, p>> issued for the pair of slots (k, k+1) is of
\* a variant of slot k and a variant of slot k+1 whose document sets share a
\* document, and a cached union holds no document of another variant pair.
C8_PruningCorrectness ==
    /\ \A l \in last.lookups :
          /\ l[1] \in 1..(NbSlots - 1)
          /\ l[2] \in DOMAIN words[l[1]]
          /\ l[3] \in DOMAIN words[l[1] + 1]
          /\ words[l[1]][l[2]] \cap words[l[1] + 1][l[3]] # {}
    /\ \A key \in DOMAIN union_cache :
          key[2] < MaxProximity =>
              union_cache[key] \subseteq PairDocs(NbSlots - key[1] + 1, key[2])

\* a pair of two-variant slots was looked up while the store records a document
\* for a variant pair of it with disjoint document sets
C8_Witness ==
    \E k \in 1..(NbSlots - 1) :
        /\ words[k] = TwoVariants /\ words[k + 1] = TwoVariants
        /\ <<"a", "b", 1>> \in DOMAIN store
        /\ <<k, "a", "a", 1>> \in last.lookups
        /\ <<NbSlots - k + 1, 1>> \in DOMAIN union_cache

NoSentinelLookup == \A l \in last.lookups : l[4] # MaxProximity

\* C9 as stated: whenever proximity 8 is tried for a pair, the set contributed
\* equals the candidate set passed to that search, and no lookup has proximity 8.
C9_Proximity8Sentinel ==
    /\ \A s \in last.sentinel : s.contributed = s.candidates
    /\ NoSentinelLookup

\* C9 amended: the set contributed at proximity 8 is the candidate set of the
\* search that first tried proximity 8 for that pair, as memoized: it equals the
\* candidate set passed when the entry is created by this try, and otherwise
\* contains it and is within the initial candidates; no lookup has proximity 8.
C9_Proximity8SentinelAmended ==
    /\ \A s \in last.sentinel :
          /\ ~s.hit => s.contributed = s.candidates
          /\ s.candidates \subseteq s.contributed
          /\ s.contributed \subseteq init_candidates
          /\ s.contributed = union_cache[<<NbSlots - s.k + 1, MaxProximity>>]
    /\ NoSentinelLookup

\* proximity 8 was tried from the cache when the candidates had shrunk
C9_Witness ==
    \E s \in last.sentinel : s.hit /\ s.contributed # s.candidates

ExpectedMaxMana == IF NbSlots >= 1 THEN MaxProximity * (NbSlots - 1) ELSE 0

\* C10 as stated: mana starts at n-1 (0 when n <= 1), max mana is 8*(n-1), and
\* mana never exceeds max mana.
C10_ManaCeiling ==
    /\ max_mana = ExpectedMaxMana
    /\ calls = 0 => mana = (IF NbSlots >= 1 THEN NbSlots - 1 ELSE 0)
    /\ mana <= max_mana

\* C10 amended: mana never exceeds max mana + 1, no search is invoked with a
\* mana above max mana, and with n <= 1 mana stays 0.
C10_ManaCeilingAmended ==
    /\ max_mana = ExpectedMaxMana
    /\ calls = 0 => mana = (IF NbSlots >= 1 THEN NbSlots - 1 ELSE 0)
    /\ mana <= max_mana + 1
    /\ \A s \in last.steps : s[2] = NbSlots - 2 => s[1] <= max_mana
    /\ NbSlots <= 1 => mana = 0

\* the loop has searched max mana and left mana one above it
C10_Witness ==
    /\ NbSlots >= 2 /\ mana = max_mana + 1
    /\ <<max_mana, NbSlots - 2>> \in last.steps

\* C11: with n >= 2 slots, non-empty initial candidates, a store that records
\* nothing and no failing lookup, the iterator returns exactly one batch, the
\* whole initial candidate set, found at mana 8*(n-1) after every smaller mana
\* was searched and gave nothing, and the next call reports exhaustion.
C11_AllUnconstrainedRoute ==
    (NbSlots >= 2 /\ store = << >> /\ init_candidates # {} /\ ~erred /\ calls >= 1) =>
        /\ batches = <<[docids |-> init_candidates, mana |-> MaxProximity * (NbSlots - 1)]>>
        /\ candidates = {}
        /\ calls = 1 => last.ret = "batch"
        /\ calls = 2 => last.ret = "none"
        /\ \A m \in (NbSlots - 1)..(MaxProximity * (NbSlots - 1)) :
              m \in DOMAIN first_searched /\ first_searched[m] = init_candidates

\* three slots, nothing in the store: the batch was found at mana 16 and the
\* next call reported exhaustion
C11_Witness ==
    /\ NbSlots = 3 /\ store = << >> /\ init_candidates = Docs /\ ~erred
    /\ calls = 2 /\ last.ret = "none" /\ last.prev_ret = "batch"
    /\ Len(batches) = 1 /\ batches[1].mana = 16

\* C16: with n >= 2 slots and no store error, the search at mana 8*(n-1) returns
\* every remaining candidate, so at exhaustion no candidate remains and every
\* initial candidate is in exactly one batch.
C16_ExhaustionDrains ==
    (NbSlots >= 2 /\ ~erred) =>
        /\ \A r \in last.returns :
              (r.k = 1 /\ r.m = max_mana /\ r.candidates # {}) =>
                  r.res = "some" /\ r.docids = r.candidates
        /\ last.ret = "none" =>
              /\ candidates = {}
              /\ \A d \in init_candidates :
                    Cardinality({i \in DOMAIN batches : d \in batches[i].docids}) = 1

\* exhaustion reported after two batches, the second one found at the ceiling
C16_Witness ==
    /\ NbSlots >= 2 /\ ~erred /\ last.ret = "none"
    /\ Len(batches) = 2 /\ batches[2].mana = max_mana

\* C17: every cache entry of a proximity below 8 is the complete union of the
\* store's sets over the kept variant pairs at the head of its suffix, and a
\* failing lookup leaves no entry for the key whose union was being built.
C17_CacheIntegrity ==
    /\ \A key \in DOMAIN union_cache :
          key[2] < MaxProximity =>
              union_cache[key] = PairDocs(NbSlots - key[1] + 1, key[2])
    /\ last.failed => last.fail_key \notin DOMAIN union_cache

\* the second lookup of a union failed after the first had found a document
C17_Witness ==
    /\ last.failed /\ last.look >= 2
    /\ \E l \in last.lookups :
          /\ <<NbSlots - l[1] + 1, l[4]>> = last.fail_key
          /\ <<l[2], l[3], l[4]>> \in DOMAIN store

\* C18: in every mdfs_step invocation, with c pairs after the current one,
\* c + 1 <= mana <= 8*(c + 1): mana - c and mana - proximity do not underflow,
\* 1 <= min_proximity <= max_proximity <= 8, and the last pair is tried with
\* exactly one proximity, the remaining mana.
C18_BudgetBounds ==
    \A s \in last.steps :
        /\ s[2] >= 0
        /\ s[2] + 1 <= s[1] /\ s[1] <= MaxProximity * (s[2] + 1)
        /\ s[1] - s[2] >= 0
        /\ 1 <= min_proximity(s[1], s[2])
        /\ min_proximity(s[1], s[2]) <= max_proximity(s[1], s[2])
        /\ max_proximity(s[1], s[2]) <= MaxProximity
        /\ s[1] - max_proximity(s[1], s[2]) >= 0
        /\ s[2] = 0 => /\ min_proximity(s[1], s[2]) = s[1]
                       /\ max_proximity(s[1], s[2]) = s[1]

\* a last pair was reached with the whole budget of 8 and with a budget of 1
C18_Witness ==
    /\ NbSlots >= 3
    /\ <<MaxProximity, 0>> \in last.steps
    /\ <<1, 0>> \in last.steps
    /\ \E s \in last.steps : s[2] = 1 /\ s[1] = 2 * MaxProximity

\* C19: once a call has reported exhaustion, every later call reports it too,
\* issues no store lookup and leaves mana, candidates and cache unchanged.
C19_ExhaustionStable ==
    [][last.ret = "none" =>
          /\ last'.ret = "none"
          /\ last'.look = 0 /\ last'.searches = 0
          /\ UNCHANGED <<mana, candidates, union_cache>>]_vars

\* a call made after exhaustion, over at least two slots
C19_Witness ==
    NbSlots >= 2 /\ last.ret = "none" /\ last.prev_ret = "none" /\ Len(batches) >= 1

\* The document set of the pair (i, i+1) at proximity p in a search over cands.
PairSet(i, p, cands) == IF p = MaxProximity THEN cands ELSE PairDocs(i, p)

\* some assignment of proximities in 1..8 to the pairs i, i+1, ... of sum m
\* makes S the intersection of P with every pair's document set
RECURSIVE Yields(_, _, _, _, _)
Yields(S, P, i, m, cands) ==
    IF i > NbSlots - 1 THEN m = 0 /\ S = P
    ELSE \E p \in 1..MaxProximity :
            /\ p <= m
            /\ S \subseteq PairSet(i, p, cands)
            /\ Yields(S, P \cap PairSet(i, p, cands), i + 1, m - p, cands)

\* C12: whenever mdfs_step returns Ok(Some(S)) for the suffix from slot k,
\* mana m and parent P, S is non-empty, within P and the candidates, and equal
\* to P intersected with every pair's document set for some assignment of
\* proximities of sum m; an enclosing level returns its child's S unchanged.
C12_SearchSoundness ==
    \A r \in last.returns :
        r.res = "some" =>
            /\ r.docids # {}
            /\ r.docids \subseteq r.parent
            /\ r.parent \subseteq r.candidates
            /\ Yields(r.docids, r.parent, r.k, r.m, r.candidates)
            /\ r.k < NbSlots - 1 =>
                  \E c \in last.returns :
                      /\ c.k = r.k + 1 /\ c.res = "some" /\ c.docids = r.docids
                      /\ c.candidates = r.candidates
                      /\ c.parent \subseteq r.parent /\ c.m < r.m

\* a search over three slots returned a strict subset of its parent set, found
\* by its second pair
C12_Witness ==
    \E r \in last.returns :
        /\ r.k = 1 /\ r.res = "some" /\ NbSlots = 3
        /\ r.docids # r.parent
        /\ \E c \in last.returns :
              c.k = 2 /\ c.res = "some" /\ c.docids = r.docids /\ c.docids # c.parent

\* some assignment of proximities in 1..8 to the pairs i, i+1, ... of sum m has
\* a non-empty intersection with P
RECURSIVE Reaches(_, _, _, _)
Reaches(P, i, m, cands) ==
    IF P = {} THEN FALSE
    ELSE IF i > NbSlots - 1 THEN m = 0
         ELSE \E p \in 1..MaxProximity :
                 p <= m /\ Reaches(P \cap PairSet(i, p, cands), i + 1, m - p, cands)

\* C13: mdfs_step returns Ok(None) only if every assignment of proximities of
\* sum m has an empty intersection with the parent set, and the bounds
\* min_proximity and max_proximity leave out no proximity that the pairs after
\* the current one could complete to the sum m.
C13_SearchCompleteness ==
    /\ \A r \in last.returns :
          r.res = "none" => ~Reaches(r.parent, r.k, r.m, r.candidates)
    /\ \A s \in last.steps : \A p \in 1..MaxProximity :
          (s[2] <= s[1] - p /\ s[1] - p <= MaxProximity * s[2]) =>
              (min_proximity(s[1], s[2]) <= p /\ p <= max_proximity(s[1], s[2]))

\* a search over three slots found nothing after a first pair gave documents at
\* two proximities and the second pair none
C13_Witness ==
    \E r \in last.returns :
        /\ r.k = 1 /\ r.res = "none" /\ NbSlots = 3 /\ r.parent # {}
        /\ \E c1, c2 \in last.returns :
              /\ c1.k = 2 /\ c2.k = 2 /\ c1.m # c2.m
              /\ c1.res = "none" /\ c2.res = "none"
              /\ c1.m < r.m /\ c2.m < r.m
              /\ c1.candidates = r.candidates /\ c2.candidates = r.candidates

BatchManaIncreasing ==
    \A i, j \in DOMAIN batches : i < j => batches[i].mana < batches[j].mana

\* C14: a call makes no more searches than the documents it removes plus the
\* mana it adds (plus the one search that fails, which ends the call), so it
\* terminates; over n >= 2 slots the batches are found at strictly increasing
\* mana values within n-1 .. 8*(n-1), hence there are at most 7*(n-1)+1 of them.
C14_Termination ==
    /\ last.searches <= Cardinality(last.start_candidates \ candidates)
                        + (mana - last.start_mana)
                        + (IF last.failed THEN 1 ELSE 0)
    /\ NbSlots >= 2 =>
          /\ BatchManaIncreasing
          /\ \A i \in DOMAIN batches :
                NbSlots - 1 <= batches[i].mana /\ batches[i].mana <= max_mana
          /\ Len(batches) <= (MaxProximity - 1) * (NbSlots - 1) + 1

\* a call that made several searches, removed two documents one at a time at
\* one mana and returned them
C14_Witness ==
    /\ NbSlots >= 2 /\ last.ret = "batch" /\ ~last.failed
    /\ last.searches >= 4
    /\ Cardinality(last.start_candidates \ candidates) = 2
    /\ Cardinality({r \in last.returns : r.k = 1 /\ r.res = "some"}) = 2

\* C15: as long as no lookup has failed, the iterator returns what the iterator
\* without a cache returns, call after call, and is left with the same
\* candidates and mana.
C15_CacheTransparency ==
    ~erred => /\ ref.ret = last.ret
              /\ ref.batch = last.batch
              /\ ref.candidates = candidates
              /\ ref.mana = mana

\* a batch was returned by a search that took from the cache a proximity-8 entry
\* made when there were more candidates
C15_Witness ==
    /\ ~erred /\ last.ret = "batch" /\ last.prev_ret = "batch"
    /\ \E s \in last.sentinel : s.hit /\ s.contributed # s.candidates
    /\ \E key \in DOMAIN union_cache :
          key[2] < MaxProximity /\ union_cache[key] # {}

====
